---- MODULE Spec2Model ----
(***************************************************************************)
(* authkeys: one invocation of main() in authkeys.go.  The program parses  *)
(* its command line, dials the LDAP server, upgrades the connection with   *)
(* StartTLS, optionally binds, runs one search and either prints the keys  *)
(* of the single entry found (user lookup) or normalises every entry into  *)
(* a User record and prints the JSON document (group lookup).              *)
(*                                                                         *)
(* Strings the program slices or splits (uid values, memberOf values) are  *)
(* sequences of one-character strings, so that strings.Index,              *)
(* strings.Split and the slice expression are computed as Go computes      *)
(* them.  The directory is the environment: every reply is chosen from a   *)
(* small set of entries.                                                   *)
(***************************************************************************)
EXTENDS Integers, Sequences, FiniteSets, TLC

VARIABLES
    groupPtr,     \* *groupPtr, the -group flag ("" when not given)
    minPtr,       \* *minPtr, the -min flag ("" when not given)
    argc,         \* len(os.Args)
    config,       \* the AuthkeysConfig fields main reads before searching
    listUsers,    \* listUsers
    attributes,   \* attributes, the projection of the group search
    pc,           \* position of main
    exit,         \* how the process ended: "" while running
    conn,         \* l: "none" before ldap.NewConn, then "open", then "closed"
    tlsUp,        \* l.StartTLS has returned nil
    bindTried,    \* l.Bind has been called
    bound,        \* l.Bind has returned nil
    nPrimary,     \* calls of l.Search at line 168
    nFallback,    \* calls of l.Search at line 194
    entries,      \* sr.Entries
    idx,          \* number of entries of sr.Entries the range loop has taken
    rawMemberOf,  \* rawMemberOf of the current iteration
    userSr,       \* userSr.Entries of the current iteration
    Users,        \* Users
    stdout        \* what has been written to standard output, one unit per write

vars == <<groupPtr, minPtr, argc, config, listUsers, attributes, pc, exit, conn,
          tlsUp, bindTried, bound, nPrimary, nFallback, entries, idx,
          rawMemberOf, userSr, Users, stdout>>

-----------------------------------------------------------------------------
(* Bounds of the model *)

\* most entries a reply to the primary search holds
MaxEntries == 2

\* most entries a reply to a fallback search holds
MaxFallback == 2

SeqsUpTo(S, n) == UNION {[1..k -> S] : k \in 0..n}

-----------------------------------------------------------------------------
(* Go's string functions, on sequences of characters *)

\* strings.Index(s, sub): 0-based position of the first occurrence, or -1
Index(s, sub) ==
    LET hits == {i \in 1..(Len(s) - Len(sub) + 1) :
                    SubSeq(s, i, i + Len(sub) - 1) = sub}
    IN  IF hits = {} THEN -1
        ELSE (CHOOSE i \in hits : \A j \in hits : i <= j) - 1

\* strings.Contains(s, sub)
Contains(s, sub) == Index(s, sub) >= 0

\* s[lo:hi] is in range (otherwise the slice expression panics)
SliceInRange(s, lo, hi) == 0 <= lo /\ lo <= hi /\ hi <= Len(s)

\* s[lo:hi]
Slice(s, lo, hi) == SubSeq(s, lo + 1, hi)

\* strings.Split(s, sep) for a non-empty sep
RECURSIVE Split(_, _)
Split(s, sep) ==
    LET i == Index(s, sep)
    IN  IF i < 0 THEN <<s>>
        ELSE <<Slice(s, 0, i)>> \o Split(Slice(s, i + Len(sep), Len(s)), sep)

-----------------------------------------------------------------------------
(* Strings and directory entries *)

EmptyStr == <<>>

\* cn := "cn="
cn == <<"c", "n", "=">>

\* the attribute names main reads from an entry
AttrNames == {"uid", "memberOf", "uidNumber", "gidNumber", "homeDirectory",
              "loginShell", "sshPublicKey"}

\* attributes requested by the group search with and without -min
MinAttributes == <<"uid", "uidNumber", "gidNumber", "homeDirectory", "loginShell">>
FullAttributes == <<"uid", "uidNumber", "gidNumber", "memberOf", "homeDirectory",
                    "loginShell">>

\* entry.GetAttributeValues(name): the values, empty when the attribute is absent
GetAttributeValues(entry, name) == entry[name]

\* entry.GetAttributeValue(name): the first value, "" when the attribute is absent
GetAttributeValue(entry, name) ==
    IF Len(entry[name]) = 0 THEN EmptyStr ELSE entry[name][1]

\* an entry with no attribute at all
NoAttrs == [a \in AttrNames |-> <<>>]

\* uid values: none, plain, an address, an address starting with '@', two '@'
UidPlain == <<"a">>
UidMail == <<"b", "@", "x">>
UidAtFirst == <<"@", "a">>
UidTwoAt == <<"a", "@", "b", "@", "c">>
UidVals == {<<>>, <<UidPlain>>, <<UidMail>>, <<UidAtFirst>>, <<UidTwoAt>>}

\* memberOf values: cn=a,o   cn=b,o   o,cn=a,d   cn=a   abc,d
DnA == <<"c", "n", "=", "a", ",", "o">>
DnB == <<"c", "n", "=", "b", ",", "o">>
DnOuFirst == <<"o", ",", "c", "n", "=", "a", ",", "d">>
DnNoComma == <<"c", "n", "=", "a">>
DnNoMarker == <<"a", "b", "c", ",", "d">>
MemberOfVals == {<<>>, <<DnA>>, <<DnA, DnB>>, <<DnOuFirst>>, <<DnNoComma>>,
                 <<DnNoMarker>>}

Posix == [NoAttrs EXCEPT !["uidNumber"] = <<(<<"1">>)>>, !["gidNumber"] = <<(<<"2">>)>>,
                         !["homeDirectory"] = <<(<<"/", "h">>)>>,
                         !["loginShell"] = <<(<<"/", "s">>)>>]

\* the person entries the directory can return: every uid value with a well-formed
\* membership, every membership value with a plain uid, and an entry with no
\* POSIX attributes
PersonEntries ==
    {[Posix EXCEPT !["uid"] = u, !["memberOf"] = <<DnA>>] : u \in UidVals}
    \cup {[Posix EXCEPT !["uid"] = <<UidPlain>>, !["memberOf"] = m] : m \in MemberOfVals}
    \cup {[NoAttrs EXCEPT !["uid"] = <<UidMail>>]}

\* the entries a user lookup can return: only the key attribute is read from them
KeyVals == {<<>>, <<(<<"k", "1">>)>>, <<(<<"k", "1">>), (<<"k", "2">>)>>}
KeyEntries == {[NoAttrs EXCEPT !["sshPublicKey"] = k] : k \in KeyVals}

\* the entries a fallback search can return: only memberOf is read from them
MemberEntries == {[NoAttrs EXCEPT !["memberOf"] = m] : m \in {<<>>, <<DnB>>}}

\* what the directory may answer to the primary search
PrimaryReplies(lu) == SeqsUpTo(IF lu THEN PersonEntries ELSE KeyEntries, MaxEntries)

\* what the directory may answer to a fallback search
FallbackReplies == SeqsUpTo(MemberEntries, MaxFallback)

\* the configurations: a trust-root file or none; no bind identity, a bind DN
\* without a password, a password without a bind DN, and both
Config(ca, dn, pw) ==
    [RootCAFile |-> ca, BindDN |-> dn, BindPW |-> pw, UserAttribute |-> "uid",
     KeyAttribute |-> "sshPublicKey"]
Configs == {Config("", "", ""), Config("", "cn=svc", ""), Config("ca.pem", "", "pw"),
            Config("ca.pem", "cn=svc", "pw")}

\* the command lines: -group g, -group g -min 1, <user>, <user> <extra>, -min=1
CmdLines == {[group |-> <<"g">>, min |-> EmptyStr, argc |-> 3],
             [group |-> <<"g">>, min |-> <<"1">>, argc |-> 5],
             [group |-> EmptyStr, min |-> EmptyStr, argc |-> 2],
             [group |-> EmptyStr, min |-> EmptyStr, argc |-> 3],
             [group |-> EmptyStr, min |-> <<"1">>, argc |-> 2]}

-----------------------------------------------------------------------------
(* The per-entry computations of the group loop *)

\* the slice bounds of line 208 are in range
GroupNameInRange(raw) ==
    SliceInRange(raw, Index(raw, cn) + Len(cn), Index(raw, <<",">>))

\* rawMemberOf[group][cnLoc+len(cn):termLoc]
GroupName(raw) ==
    LET cnLoc == Index(raw, cn)
        termLoc == Index(raw, <<",">>)
    IN  Slice(raw, cnLoc + Len(cn), termLoc)

\* the group names without the substitution of the queried group
MemberOfListNoDefault(raw, group) == [g \in 1..Len(raw) |-> GroupName(raw[g])]

\* memberOf after the loop of lines 205-209 and the substitution of 211-213
MemberOfList(raw, group) ==
    LET memberOf == [g \in 1..Len(raw) |-> GroupName(raw[g])]
    IN  IF Len(memberOf) = 0 THEN <<group>> ELSE memberOf

\* the user name cut at the last '@' instead of the first
NormalizeUidLast(entry) ==
    LET email == GetAttributeValue(entry, "uid")
        parts == Split(email, <<"@">>)
    IN  IF Contains(email, <<"@">>)
        THEN Slice(email, 0, Len(email) - Len(parts[Len(parts)]) - 1)
        ELSE email

\* username of lines 215-221
NormalizeUid(entry) ==
    LET email == GetAttributeValue(entry, "uid")
    IN  IF Contains(email, <<"@">>) THEN Split(email, <<"@">>)[1] ELSE email

\* the User literal of lines 226-233
NewUser(entry, memberOf) ==
    [Uid |-> NormalizeUid(entry),
     UidNumber |-> GetAttributeValue(entry, "uidNumber"),
     GidNumber |-> GetAttributeValue(entry, "gidNumber"),
     MemberOf |-> memberOf,
     HomeDirectory |-> GetAttributeValue(entry, "homeDirectory"),
     Shell |-> GetAttributeValue(entry, "loginShell")]

\* the new User put in front
PrependUser(us, u) == <<u>> \o us

\* Users = append(Users, u)
AppendUser(us, u) == Append(us, u)

\* rawMemberOf after the loop of lines 198-200 over the fallback reply
AfterFallback(raw, reply) ==
    IF Len(reply) = 0 THEN raw
    ELSE GetAttributeValues(reply[Len(reply)], "memberOf")

\* more than one entry refused in either mode
TooManyAnyMode(lu, n) == n > 1

\* the condition of line 175
TooMany(lu, n) == ~lu /\ n > 1

\* the condition of line 141
NeedBind(c) == c.BindDN # "" /\ c.BindPW # ""

-----------------------------------------------------------------------------
(* How main ends *)

\* log.Fatal / log.Fatalf: os.Exit(1); deferred calls do not run
Fatal(why) ==
    /\ pc' = "exited"
    /\ exit' = why
    /\ conn' = conn

\* a run-time panic: the deferred l.Close() of line 113 runs, then the process dies
Panic(why) ==
    /\ pc' = "exited"
    /\ exit' = why
    /\ conn' = "closed"

-----------------------------------------------------------------------------
(* The state after the flags and the configuration file have been read *)

Init ==
    /\ \E c \in CmdLines :
          /\ groupPtr = c.group
          /\ minPtr = c.min
          /\ argc = c.argc
    /\ config \in Configs
    /\ listUsers = FALSE
    /\ attributes = <<>>
    /\ pc = "args"
    /\ exit = ""
    /\ conn = "none"
    /\ tlsUp = FALSE
    /\ bindTried = FALSE
    /\ bound = FALSE
    /\ nPrimary = 0
    /\ nFallback = 0
    /\ entries = <<>>
    /\ idx = 0
    /\ rawMemberOf = <<>>
    /\ userSr = <<>>
    /\ Users = <<>>
    /\ stdout = <<>>

\* lines 80-95: the mode and the projection
ParseArgs ==
    /\ pc = "args"
    /\ UNCHANGED <<groupPtr, minPtr, argc, config, tlsUp, bindTried, bound, nPrimary,
                   nFallback, entries, idx, rawMemberOf, userSr, Users, stdout>>
    /\ \/ /\ groupPtr # EmptyStr
          /\ listUsers' = TRUE
          /\ attributes' = IF minPtr # EmptyStr THEN MinAttributes ELSE FullAttributes
          /\ pc' = "dial"
          /\ UNCHANGED <<exit, conn>>
       \/ /\ groupPtr = EmptyStr
          /\ argc # 2
          /\ Fatal("usage")
          /\ UNCHANGED <<listUsers, attributes>>
       \/ /\ groupPtr = EmptyStr
          /\ argc = 2
          /\ listUsers' = FALSE
          /\ attributes' = IF minPtr # EmptyStr THEN MinAttributes ELSE FullAttributes
          /\ pc' = "dial"
          /\ UNCHANGED <<exit, conn>>

\* lines 105-113: net.DialTimeout, ldap.NewConn, l.Start, defer l.Close
Dial ==
    /\ pc = "dial"
    /\ UNCHANGED <<groupPtr, minPtr, argc, config, listUsers, attributes, tlsUp,
                   bindTried, bound, nPrimary, nFallback, entries, idx, rawMemberOf,
                   userSr, Users, stdout>>
    /\ \/ /\ Fatal("dial")
       \/ /\ conn' = "open"
          /\ pc' = "rootca"
          /\ UNCHANGED exit

\* lines 122-132: the additional trust root
LoadRootCA ==
    /\ pc = "rootca"
    /\ UNCHANGED <<groupPtr, minPtr, argc, config, listUsers, attributes, tlsUp,
                   bindTried, bound, nPrimary, nFallback, entries, idx, rawMemberOf,
                   userSr, Users, stdout>>
    /\ \/ /\ config.RootCAFile = ""
          /\ pc' = "starttls"
          /\ UNCHANGED <<exit, conn>>
       \/ /\ config.RootCAFile # ""
          /\ Fatal("rootca-read")
       \/ /\ config.RootCAFile # ""
          /\ Fatal("rootca-parse")
       \/ /\ config.RootCAFile # ""
          /\ pc' = "starttls"
          /\ UNCHANGED <<exit, conn>>

\* l.StartTLS with its error ignored
StartTLSUnchecked ==
    /\ pc = "starttls"
    /\ UNCHANGED <<groupPtr, minPtr, argc, config, listUsers, attributes, bindTried,
                   bound, nPrimary, nFallback, entries, idx, rawMemberOf, userSr,
                   Users, stdout>>
    /\ pc' = "bind"
    /\ tlsUp' \in BOOLEAN
    /\ UNCHANGED <<exit, conn>>

\* lines 135-138: l.StartTLS
StartTLS ==
    /\ pc = "starttls"
    /\ UNCHANGED <<groupPtr, minPtr, argc, config, listUsers, attributes, bindTried,
                   bound, nPrimary, nFallback, entries, idx, rawMemberOf, userSr,
                   Users, stdout>>
    /\ \/ /\ Fatal("starttls")
          /\ UNCHANGED tlsUp
       \/ /\ tlsUp' = TRUE
          /\ pc' = "bind"
          /\ UNCHANGED <<exit, conn>>

\* lines 141-146: l.Bind when a bind DN and a password are configured
Bind ==
    /\ pc = "bind"
    /\ UNCHANGED <<groupPtr, minPtr, argc, config, listUsers, attributes, tlsUp,
                   nPrimary, nFallback, entries, idx, rawMemberOf, userSr, Users,
                   stdout>>
    /\ \/ /\ ~NeedBind(config)
          /\ pc' = "search"
          /\ UNCHANGED <<exit, conn, bindTried, bound>>
       \/ /\ NeedBind(config)
          /\ bindTried' = TRUE
          /\ Fatal("bind")
          /\ UNCHANGED bound
       \/ /\ NeedBind(config)
          /\ bindTried' = TRUE
          /\ bound' = TRUE
          /\ pc' = "search"
          /\ UNCHANGED <<exit, conn>>

\* lines 148-171: the primary search
Search ==
    /\ pc = "search"
    /\ nPrimary' = nPrimary + 1
    /\ UNCHANGED <<groupPtr, minPtr, argc, config, listUsers, attributes, tlsUp,
                   bindTried, bound, nFallback, idx, rawMemberOf, userSr, Users,
                   stdout>>
    /\ \/ /\ Fatal("search")
          /\ UNCHANGED entries
       \/ /\ entries' \in PrimaryReplies(listUsers)
          /\ pc' = "count"
          /\ UNCHANGED <<exit, conn>>

\* lines 173-177: the number of entries
CheckEntries ==
    /\ pc = "count"
    /\ UNCHANGED <<groupPtr, minPtr, argc, config, listUsers, attributes, tlsUp,
                   bindTried, bound, nPrimary, nFallback, entries, idx, rawMemberOf,
                   userSr, Users, stdout>>
    /\ \/ /\ Len(entries) = 0
          /\ Fatal("no-entries")
       \/ /\ Len(entries) # 0
          /\ TooMany(listUsers, Len(entries))
          /\ Fatal("too-many")
       \/ /\ Len(entries) # 0
          /\ ~TooMany(listUsers, Len(entries))
          /\ pc' = IF listUsers THEN "loop" ELSE "keys"
          /\ UNCHANGED <<exit, conn>>

\* the fallback search failed and the entry is skipped
FallbackErrorSkip ==
    /\ pc' = "loop"
    /\ UNCHANGED <<exit, conn>>

\* lines 195-197: the fallback search failed
FallbackError == Fatal("fallback-search")

\* lines 183-201: the next entry of the range loop, its memberOf values and, with
\* -min, the fallback search for them
NextEntry ==
    /\ pc = "loop"
    /\ idx < Len(entries)
    /\ idx' = idx + 1
    /\ UNCHANGED <<groupPtr, minPtr, argc, config, listUsers, attributes, tlsUp,
                   bindTried, bound, nPrimary, entries, Users, stdout>>
    /\ LET entry == entries[idx + 1]
           raw == GetAttributeValues(entry, "memberOf")
       IN  \/ /\ minPtr = EmptyStr
              /\ rawMemberOf' = raw
              /\ pc' = "extract"
              /\ UNCHANGED <<exit, conn, nFallback, userSr>>
           \/ /\ minPtr # EmptyStr
              /\ Len(GetAttributeValues(entry, config.UserAttribute)) = 0
              /\ Panic("index-out-of-range")
              /\ rawMemberOf' = raw
              /\ UNCHANGED <<nFallback, userSr>>
           \/ /\ minPtr # EmptyStr
              /\ Len(GetAttributeValues(entry, config.UserAttribute)) > 0
              /\ nFallback' = nFallback + 1
              /\ FallbackError
              /\ rawMemberOf' = raw
              /\ UNCHANGED userSr
           \/ /\ minPtr # EmptyStr
              /\ Len(GetAttributeValues(entry, config.UserAttribute)) > 0
              /\ nFallback' = nFallback + 1
              /\ \E reply \in FallbackReplies :
                    /\ userSr' = reply
                    /\ rawMemberOf' = AfterFallback(raw, reply)
              /\ pc' = "extract"
              /\ UNCHANGED <<exit, conn>>

\* lines 203-233: the group names, the user name and the User appended
Normalize ==
    /\ pc = "extract"
    /\ UNCHANGED <<groupPtr, minPtr, argc, config, listUsers, attributes, tlsUp,
                   bindTried, bound, nPrimary, nFallback, entries, idx, rawMemberOf,
                   stdout>>
    /\ userSr' = <<>>
    /\ \/ /\ \E g \in 1..Len(rawMemberOf) : ~GroupNameInRange(rawMemberOf[g])
          /\ Panic("slice-out-of-range")
          /\ UNCHANGED Users
       \/ /\ \A g \in 1..Len(rawMemberOf) : GroupNameInRange(rawMemberOf[g])
          /\ Users' = AppendUser(Users, NewUser(entries[idx],
                                                MemberOfList(rawMemberOf, groupPtr)))
          /\ pc' = "loop"
          /\ UNCHANGED <<exit, conn>>

\* lines 235-239: json.Marshal(Users) and the one write of the document
PrintUsers ==
    /\ pc = "loop"
    /\ idx = Len(entries)
    /\ stdout' = Append(stdout, Users)
    /\ pc' = "return"
    /\ UNCHANGED <<groupPtr, minPtr, argc, config, listUsers, attributes, exit, conn,
                   tlsUp, bindTried, bound, nPrimary, nFallback, entries, idx,
                   rawMemberOf, userSr, Users>>

\* the key lines of entries[from..], in order
RECURSIVE KeyLines(_, _, _)
KeyLines(es, attribute, from) ==
    IF from > Len(es) THEN <<>>
    ELSE GetAttributeValues(es[from], attribute) \o KeyLines(es, attribute, from + 1)

\* lines 241-247: one line per key value
PrintKeys ==
    /\ pc = "keys"
    /\ stdout' = stdout \o KeyLines(entries, config.KeyAttribute, 1)
    /\ pc' = "return"
    /\ UNCHANGED <<groupPtr, minPtr, argc, config, listUsers, attributes, exit, conn,
                   tlsUp, bindTried, bound, nPrimary, nFallback, entries, idx,
                   rawMemberOf, userSr, Users>>

\* line 252: main returns and the deferred l.Close() of line 113 runs
Return ==
    /\ pc = "return"
    /\ conn' = "closed"
    /\ exit' = "ok"
    /\ pc' = "exited"
    /\ UNCHANGED <<groupPtr, minPtr, argc, config, listUsers, attributes, tlsUp,
                   bindTried, bound, nPrimary, nFallback, entries, idx, rawMemberOf,
                   userSr, Users, stdout>>

Next ==
    \/ ParseArgs
    \/ Dial
    \/ LoadRootCA
    \/ StartTLS
    \/ Bind
    \/ Search
    \/ CheckEntries
    \/ NextEntry
    \/ Normalize
    \/ PrintUsers
    \/ PrintKeys
    \/ Return

Spec == Init /\ [][Next]_vars

-----------------------------------------------------------------------------
(* What the claims speak of, stated without the program's own operators *)

\* v holds an '@'
HasAt(v) == \E i \in 1..Len(v) : v[i] = "@"

\* the part of v before its first '@'
BeforeFirstAt(v) ==
    LET first == CHOOSE i \in 1..Len(v) : v[i] = "@" /\ \A j \in 1..(i - 1) : v[j] # "@"
    IN  SubSeq(v, 1, first - 1)

\* the positions at which the marker cn= starts in s
Markers(s) == {i \in 1..(Len(s) - 2) : s[i] = "c" /\ s[i + 1] = "n" /\ s[i + 2] = "="}

\* the first marker of s
FirstMarker(s) == CHOOSE i \in Markers(s) : \A j \in Markers(s) : i <= j

\* the commas of s after its first marker
CommasAfterMarker(s) == {j \in (FirstMarker(s) + 3)..Len(s) : s[j] = ","}

\* s holds a marker and a comma after it
HasMarkerAndComma(s) == Markers(s) # {} /\ CommasAfterMarker(s) # {}

\* the part of s strictly between its first marker and the first comma after it
BetweenMarkerAndComma(s) ==
    LET comma == CHOOSE j \in CommasAfterMarker(s) : \A k \in CommasAfterMarker(s) : j <= k
    IN  SubSeq(s, FirstMarker(s) + 3, comma - 1)

\* the first value of an attribute, or the empty string
FirstOrEmpty(values) == IF values = <<>> THEN <<>> ELSE Head(values)

\* main has ended by one of the log.Fatal calls that precede the entry count
EndedBeforeCount ==
    exit \in {"usage", "dial", "rootca-read", "rootca-parse", "starttls", "bind", "search"}

\* the entry count of lines 173-177 has been evaluated
Counted ==
    /\ pc \notin {"args", "dial", "rootca", "starttls", "bind", "search", "count"}
    /\ ~EndedBeforeCount

\* the entry taken last has been normalised into the last record of Users
LastNormalized == idx >= 1 /\ Len(Users) = idx

-----------------------------------------------------------------------------
(* The claims *)

\* C1: once the connection has been created, it has been closed when the process
\* has ended, whichever way it ended.
C1_ClosedOnEveryExit == (pc = "exited" /\ conn # "none") => conn = "closed"

C3_SecureBeforeSearch ==
    /\ (nPrimary + nFallback > 0) =>
          /\ tlsUp
          /\ (config.BindDN # "" /\ config.BindPW # "") => bound
    /\ exit \in {"rootca-read", "rootca-parse", "starttls"} =>
          (~bindTried /\ nPrimary = 0 /\ nFallback = 0)
    /\ ~tlsUp => (~bindTried /\ nPrimary = 0 /\ nFallback = 0)

\* C3 witness: a fallback search issued after StartTLS and the configured bind
C3_Witness == nFallback > 0 /\ tlsUp /\ bound

\* C4: with -min, every entry taken from the primary result has had exactly one
\* fallback search, and the membership values its group names are extracted from
\* are those of the fallback result: none when that result has no entry.
C4_FallbackDecides ==
    (listUsers /\ minPtr # EmptyStr) =>
        /\ nFallback = idx
        /\ pc = "extract" =>
              IF Len(userSr) = 0 THEN rawMemberOf = <<>>
              ELSE \E j \in 1..Len(userSr) : rawMemberOf = userSr[j]["memberOf"]

\* C5: a group lookup writes the member document once, after every entry has been
\* normalised, and a run that ended any other way than by returning (a failed
\* fallback search in particular) has written nothing.
C5_NoPartialRoster ==
    listUsers =>
        /\ stdout # <<>> =>
              /\ Len(stdout) = 1
              /\ Len(stdout[1]) = Len(entries)
              /\ idx = Len(entries)
              /\ exit \in {"", "ok"}
        /\ exit = "fallback-search" => stdout = <<>>
        /\ exit \notin {"", "ok"} => stdout = <<>>

\* C5 witness: the fallback search failed after a first member had been normalised
C5_Witness == exit = "fallback-search" /\ Len(Users) >= 1 /\ stdout = <<>>

\* C6: every member record has a non-empty group list, and a member whose
\* membership values after the fallback step are none has exactly the queried
\* group.
C6_GroupsNeverEmpty ==
    listUsers =>
        /\ \A i \in 1..Len(Users) : Users[i].MemberOf # <<>>
        /\ stdout # <<>> => \A i \in 1..Len(stdout[1]) : stdout[1][i].MemberOf # <<>>
        /\ (LastNormalized /\ rawMemberOf = <<>>) => Users[idx].MemberOf = <<groupPtr>>
        /\ (LastNormalized /\ rawMemberOf = <<>> /\ stdout # <<>>) =>
              stdout[1][idx].MemberOf = <<groupPtr>>

\* C6 witness: a written document whose last member had no membership value
C6_Witness ==
    /\ listUsers
    /\ stdout # <<>>
    /\ LastNormalized
    /\ rawMemberOf = <<>>
    /\ stdout[1][idx].MemberOf = <<groupPtr>>

\* C7: the identity of a member is the part of its uid value before the first '@'
\* when the value holds one, the value itself otherwise, and holds no '@'.
C7_Identity ==
    /\ \A i \in 1..Len(Users) :
          LET v == FirstOrEmpty(entries[i]["uid"])
          IN  /\ HasAt(v) => Users[i].Uid = BeforeFirstAt(v)
              /\ ~HasAt(v) => Users[i].Uid = v
              /\ ~HasAt(Users[i].Uid)
    /\ (listUsers /\ stdout # <<>>) =>
          \A i \in 1..Len(stdout[1]) :
              LET v == FirstOrEmpty(entries[i]["uid"])
              IN  /\ HasAt(v) => stdout[1][i].Uid = BeforeFirstAt(v)
                  /\ ~HasAt(v) => stdout[1][i].Uid = v
                  /\ ~HasAt(stdout[1][i].Uid)

\* C7 witness: a written document with a member whose uid value holds two '@'
C7_Witness ==
    /\ listUsers
    /\ stdout # <<>>
    /\ \E i \in 1..Len(stdout[1]) :
          /\ entries[i]["uid"] = <<UidTwoAt>>
          /\ stdout[1][i].Uid = <<"a">>

\* C8: a membership value that holds the marker cn= and a comma after it yields
\* the name strictly between the two, also when a comma precedes the marker.
C8_GroupNameBetween ==
    /\ (listUsers /\ LastNormalized) =>
          \A g \in 1..Len(rawMemberOf) :
              HasMarkerAndComma(rawMemberOf[g]) =>
                  Users[idx].MemberOf[g] = BetweenMarkerAndComma(rawMemberOf[g])
    /\ exit = "slice-out-of-range" =>
          \E g \in 1..Len(rawMemberOf) : ~HasMarkerAndComma(rawMemberOf[g])

\* C9: the written document holds one record per entry of the primary result, in
\* the order of the entries: the i-th record is made of the i-th entry.
C9_OneRecordPerEntryInOrder ==
    (listUsers /\ stdout # <<>>) =>
        /\ Len(stdout) = 1
        /\ Len(stdout[1]) = Len(entries)
        /\ \A i \in 1..Len(entries) :
              LET e == entries[i]
                  r == stdout[1][i]
                  v == FirstOrEmpty(e["uid"])
              IN  /\ r.Uid = IF HasAt(v) THEN BeforeFirstAt(v) ELSE v
                  /\ r.UidNumber = FirstOrEmpty(e["uidNumber"])
                  /\ r.GidNumber = FirstOrEmpty(e["gidNumber"])
                  /\ r.HomeDirectory = FirstOrEmpty(e["homeDirectory"])
                  /\ r.Shell = FirstOrEmpty(e["loginShell"])
                  /\ minPtr = EmptyStr =>
                        /\ Len(r.MemberOf) = IF e["memberOf"] = <<>> THEN 1
                                             ELSE Len(e["memberOf"])
                        /\ \A g \in 1..Len(e["memberOf"]) :
                              HasMarkerAndComma(e["memberOf"][g]) =>
                                  r.MemberOf[g] = BetweenMarkerAndComma(e["memberOf"][g])

\* C9 witness: a document written with -min for two entries that differ
C9_Witness ==
    /\ listUsers
    /\ minPtr # EmptyStr
    /\ stdout # <<>>
    /\ Len(entries) = 2
    /\ stdout[1][1] # stdout[1][2]
    /\ stdout[1][1].UidNumber # stdout[1][2].UidNumber

\* C10: the normalisation of an entry never ends in a run-time panic.
C10_NoPanic == exit \notin {"index-out-of-range", "slice-out-of-range"}

====
